---- MODULE Spec2Model ----
(***************************************************************************)
(* Zeiterfassung (streamlit_app.py): the time ledger.  Several browser     *)
(* sessions (callers) run the Streamlit script against one shared          *)
(* database; every script run reads the active session, then executes the  *)
(* handler of the button that was clicked.  Every commit is a transaction  *)
(* of its own, so the steps of one handler interleave with the steps of    *)
(* the other callers' handlers.                                            *)
(*                                                                         *)
(* A timestamp string "YYYY-MM-DD HH:MM:SS" is the tuple <<Y,M,D,h,m,s>>.  *)
(* A tz-aware datetime is [epoch |-> seconds since 1970 UTC, off |-> utc   *)
(* offset in seconds].  None is <<>>, a present optional value v is <<v>>  *)
(* (a timestamp column holds <<>> or the 6-tuple).                         *)
(*                                                                         *)
(* A step of a caller is one wait on the database (a SELECT or a commit)   *)
(* together with the local code around it.  A clock read (now_utc_str,     *)
(* datetime.now) happens somewhere between two waits: it returns any clock *)
(* value between the caller's previous step and the present one.           *)
(*                                                                         *)
(* Scope: the wall clock does not run backwards between two reads (end <   *)
(* start is covered by the duration policy's own specification, SpecDur).  *)
(* Of the page below the buttons the month overview is modelled (the       *)
(* metric and the cached month table); the logbook table only displays     *)
(* rows and is left out.                                                   *)
(*                                                                         *)
(* The actions are explored under five specifications: SpecSolo, one       *)
(* browser session from the state after construction with every action and *)
(* storage failures; SpecLogin, all browser sessions logging in, changing  *)
(* the user and logging out; SpecSessions, logged-in browser sessions      *)
(* starting and stopping, with storage failures; SpecLedger, logged-in     *)
(* browser sessions starting, stopping and booking adjustments; SpecStops, *)
(* the browser sessions of one user stopping its running session.  SpecDur *)
(* and SpecPair apply the duration policy to generated timestamps.         *)
(***************************************************************************)
EXTENDS Integers, Sequences, FiniteSets, TLC

\* ---------------------------------------------------------------- bounds
NumCallers == 2
MaxSessions == 2
MaxAdjustments == 1
MaxFailures == 1
NumInstants == 2
NumStoppers == 3

Callers == 1..NumCallers

\* ---------------------------------------------------------------- config
ALLOWED_USERS == <<"Noah", "Elena">>

None == <<>>

Max(a, b) == IF a >= b THEN a ELSE b

\* ------------------------------------------------- calendar (datetime)
\* days since 1970-01-01 of a proleptic Gregorian date
DaysFromCivil(y, m, d) ==
    LET yy  == IF m <= 2 THEN y - 1 ELSE y
        era == yy \div 400
        yoe == yy - era * 400
        mp  == IF m > 2 THEN m - 3 ELSE m + 9
        doy == (153 * mp + 2) \div 5 + d - 1
        doe == yoe * 365 + yoe \div 4 - yoe \div 100 + doy
    IN  era * 146097 + doe - 719468

\* <<Y, M, D>> of a day number
CivilFromDays(z) ==
    LET zz  == z + 719468
        era == zz \div 146097
        doe == zz - era * 146097
        yoe == (doe - doe \div 1460 + doe \div 36524 - doe \div 146096) \div 365
        doy == doe - (365 * yoe + yoe \div 4 - yoe \div 100)
        mp  == (5 * doy + 2) \div 153
        d   == doy - (153 * mp + 2) \div 5 + 1
        m   == IF mp < 10 THEN mp + 3 ELSE mp - 9
        y   == yoe + era * 400 + (IF m <= 2 THEN 1 ELSE 0)
    IN  <<y, m, d>>

\* the fields <<Y,M,D,h,m,s>> that strftime("%Y-%m-%d %H:%M:%S") prints
strftime(dt) ==
    LET loc == dt.epoch + dt.off
        day == loc \div 86400
        sod == loc % 86400
        ymd == CivilFromDays(day)
    IN  <<ymd[1], ymd[2], ymd[3], sod \div 3600, (sod % 3600) \div 60, sod % 60>>

\* the last Sunday of month m (which has 31 days) of year y, as a day number
LastSunday(y, m) ==
    LET d31 == DaysFromCivil(y, m, 31)
    IN  d31 - ((d31 + 4) % 7)

\* utc offset of Europe/Zurich at an instant: CEST between the last Sundays
\* of March and October, 01:00 UTC, else CET
ZurichOffset(epoch) ==
    LET y     == CivilFromDays(epoch \div 86400)[1]
        begin == LastSunday(y, 3) * 86400 + 3600
        end   == LastSunday(y, 10) * 86400 + 3600
    IN  IF epoch >= begin /\ epoch < end THEN 7200 ELSE 3600

\* dt.astimezone(TZ)
astimezone(dt) == [epoch |-> dt.epoch, off |-> ZurichOffset(dt.epoch)]

\* datetime.now(UTC) at clock value t
now_utc(t) == [epoch |-> t, off |-> 0]

\* ------------------------------------------------------ HELPERS (Zeit)
now_utc_str(t) == strftime(now_utc(t))

utc_str_to_dt(s) ==
    [epoch |-> DaysFromCivil(s[1], s[2], s[3]) * 86400 + s[4] * 3600 + s[5] * 60 + s[6],
     off   |-> 0]

to_local_str(utc_s) == strftime(astimezone(utc_str_to_dt(utc_s)))

\* the policy clamping the whole minutes at 0 before it rounds
minutes_between_utc_str_clampfirst(start_utc, end_utc) ==
    LET total_seconds == utc_str_to_dt(end_utc).epoch - utc_str_to_dt(start_utc).epoch
        mins == total_seconds \div 60
        secs == total_seconds % 60
    IN  Max(0, mins) + (IF secs >= 30 THEN 1 ELSE 0)

\* the policy rounding up only above 30 seconds
minutes_between_utc_str_above30(start_utc, end_utc) ==
    LET total_seconds == utc_str_to_dt(end_utc).epoch - utc_str_to_dt(start_utc).epoch
        mins == total_seconds \div 60
        secs == total_seconds % 60
    IN  Max(0, mins + (IF secs > 30 THEN 1 ELSE 0))

minutes_between_utc_str(start_utc, end_utc) ==
    LET total_seconds == utc_str_to_dt(end_utc).epoch - utc_str_to_dt(start_utc).epoch
        mins == total_seconds \div 60
        secs == total_seconds % 60
    IN  Max(0, mins + (IF secs >= 30 THEN 1 ELSE 0))

seconds_between_utc_str(start_utc, end_utc) ==
    Max(0, utc_str_to_dt(end_utc).epoch - utc_str_to_dt(start_utc).epoch)

\* "YYYY-MM" as <<Y, M>>
month_key_local(dt) ==
    LET f == strftime(astimezone(dt)) IN <<f[1], f[2]>>

\* "HH:MM:SS" as <<hours, minutes, seconds>>
fmt_hms(total_seconds) ==
    LET days == total_seconds \div 86400
        sec  == total_seconds % 86400
    IN  <<days * 24 + sec \div 3600, (sec % 3600) \div 60, sec % 60>>

\* ---------------------------------------------------------------- clock
\* the instants the wall clock can show (epoch seconds), in the order the
\* bound adds them: 2024-03-31 21:58:30 UTC (23:58:30 local), 160 seconds
\* later (2024-04-01 00:01:10 local), 10 seconds after the first, then one
\* more per 31 days; Instant(0) is 10 seconds before the first
Instant(k) ==
    IF k = 0 THEN 1711922300
    ELSE IF k = 1 THEN 1711922310
    ELSE IF k = 2 THEN 1711922470
    ELSE IF k = 3 THEN 1711922320
    ELSE 1711922470 + (k - 3) * 2678400

Instants == { Instant(k) : k \in 1..NumInstants }

\* the values the clock has at all: Instants, and 10 seconds before the first
\* (2024-03-31 21:58:20 UTC) for a specification that begins earlier
ClockValues == Instants \cup {Instant(0)}

\* ---------------------------------------------------------------- state
VARIABLES
    users,        \* table users: sequence of names, id = position
    sessions,     \* table sessions: rows [user_id, start_ts, end_ts, minutes]
    adjustments,  \* table adjustments: rows [user_id, minutes, reason, created_ts]
    logs,         \* table logs: rows [user_id, kind, minutes, ts, details]
    now,          \* the wall clock, epoch seconds
    pc,           \* per caller: position of its script run
    st_user,      \* per caller: st.session_state["user"], None or <<[id, name]>>
    shown,        \* per caller: the col1 buttons its last run rendered
    s_active,     \* per caller: the row its stop handler works on, <<[id, start_ts]>>
    loc,          \* per caller: locals of the run in flight; since is the clock
                  \* value at the run's previous step
    click,        \* per caller: the button its current run was started by
    outcome,      \* per caller: the message its current run put on the page
    inserted,     \* per caller: id of the session row its current run inserted, 0 if none
    seen_done,    \* per caller: number of finished sessions of its user when its
                  \* current run, started by "Starten", read active_session
    failures,     \* number of commits the storage has failed so far
    dur,          \* duration policy under test: the two instants, their strings,
                  \* and the result
    cache         \* st.cache_data of load_month_totals_cached: per user_id, None
                  \* or <<[data, at]>>, the value cached and the clock at that moment

vars == <<users, sessions, adjustments, logs, now, pc, st_user, shown, s_active,
          loc, click, outcome, inserted, seen_done, failures, dur, cache>>

tables == <<users, sessions, adjustments, logs>>

NoLoc == [ts |-> None, secs |-> 0, mins |-> 0, delta |-> 0, reason |-> "", name |-> "",
          since |-> 0, key |-> None, part |-> <<>>, current |-> 0, loaded |-> None]

NoDur == [t0 |-> 0, t1 |-> 0, start |-> None, end |-> None, mins |-> None]

InitLedger ==
    /\ users = <<>>
    /\ sessions = <<>>
    /\ adjustments = <<>>
    /\ logs = <<>>
    /\ now = Instant(1)
    /\ pc = [p \in Callers |-> "idle"]
    /\ st_user = [p \in Callers |-> None]
    /\ shown = [p \in Callers |-> {}]
    /\ s_active = [p \in Callers |-> None]
    /\ loc = [p \in Callers |-> NoLoc]
    /\ click = [p \in Callers |-> "none"]
    /\ outcome = [p \in Callers |-> "none"]
    /\ inserted = [p \in Callers |-> 0]
    /\ seen_done = [p \in Callers |-> 0]
    /\ failures = 0
    /\ cache = [uid \in DOMAIN ALLOWED_USERS |-> None]

Init == InitLedger /\ dur = NoDur

\* --------------------------------------------------------- HELPERS (DB)
Range(f) == { f[i] : i \in DOMAIN f }

ActiveIds(uid) ==
    { i \in DOMAIN sessions : sessions[i].user_id = uid /\ sessions[i].end_ts = None }

FinishedIds(uid) ==
    { i \in DOMAIN sessions : sessions[i].user_id = uid /\ sessions[i].end_ts # None }

SetMax(S) == CHOOSE x \in S : \A y \in S : y <= x

\* select ... where user_id = :uid and end_ts is null order by id desc (first row)
active_session(uid) ==
    IF ActiveIds(uid) = {} THEN None
    ELSE LET i == SetMax(ActiveIds(uid))
         IN  <<[id |-> i, start_ts |-> sessions[i].start_ts]>>

\* select ... from users where name = :name
UserIdOf(name) ==
    IF \E i \in DOMAIN users : users[i] = name
    THEN <<CHOOSE i \in DOMAIN users : users[i] = name>>
    ELSE None

\* uq_active_session_per_user: the partial unique index on sessions(user_id)
\* where end_ts is null rejects a second row with end_ts null
uq_active_session_per_user_off(uid) == TRUE

\* the index without its where clause: one row per user, running or finished
uq_active_session_per_user_all(uid) ==
    { i \in DOMAIN sessions : sessions[i].user_id = uid } = {}

uq_active_session_per_user(uid) == ActiveIds(uid) = {}

\* the values a clock read can return when it happens somewhere between the
\* run's previous step (at clock value since) and its present step
ClockReads(since) == { t \in ClockValues : since <= t /\ t <= now }

\* the row add_log inserts at clock value t
LogRow(uid, kind, minutes, details, t) ==
    [user_id |-> uid, kind |-> kind, minutes |-> minutes,
     ts |-> now_utc_str(t), details |-> details]

\* lines 195-204: ts = now_utc_str() (line 201), read since the caller's
\* previous step at clock value since; then the commit of the row
add_log(uid, kind, minutes, details, since) ==
    \E t \in ClockReads(since) :
        logs' = Append(logs, LogRow(uid, kind, minutes, details, t))

Uid(p) == st_user[p][1].id

\* ------------------------------------------------------------ aggregator
\* totals[k] = totals.get(k, 0) + v
DictAdd(totals, k, v) ==
    [x \in DOMAIN totals \cup {k} |->
        (IF x \in DOMAIN totals THEN totals[x] ELSE 0) + (IF x = k THEN v ELSE 0)]

\* int(row.minutes or 0)
IntOrZero(minutes) == IF minutes = None THEN 0 ELSE minutes[1]

\* the month of a session, by its start
SessionMonth_start(row) == month_key_local(astimezone(utc_str_to_dt(row.start_ts)))

\* lines 225-226: the month of a session is the local month of its end
SessionMonth(row) == month_key_local(astimezone(utc_str_to_dt(row.end_ts)))

\* the month of an adjustment, read off its UTC string
AdjustmentMonth_utc(a) == <<a.created_ts[1], a.created_ts[2]>>

\* lines 231-232: the month of an adjustment is the local month of its creation
AdjustmentMonth(a) == month_key_local(astimezone(utc_str_to_dt(a.created_ts)))

\* lines 213-216 and 224-227: the loop over the finished sessions of the user
RECURSIVE SessionTotals(_, _, _, _)
SessionTotals(rows, uid, i, totals) ==
    IF i > Len(rows) THEN totals
    ELSE LET row == rows[i]
         IN  IF row.user_id = uid /\ row.end_ts # None
             THEN SessionTotals(rows, uid, i + 1,
                                DictAdd(totals, SessionMonth(row), IntOrZero(row.minutes)))
             ELSE SessionTotals(rows, uid, i + 1, totals)

\* lines 217-219 and 230-233: the loop over the adjustments of the user
RECURSIVE AdjustmentTotals(_, _, _, _)
AdjustmentTotals(rows, uid, i, totals) ==
    IF i > Len(rows) THEN totals
    ELSE LET a == rows[i]
         IN  IF a.user_id = uid
             THEN AdjustmentTotals(rows, uid, i + 1,
                                   DictAdd(totals, AdjustmentMonth(a), a.minutes))
             ELSE AdjustmentTotals(rows, uid, i + 1, totals)

\* "YYYY-MM" strings compare as their <<Y, M>> do
KeyLeq(a, b) == a[1] < b[1] \/ (a[1] = b[1] /\ a[2] <= b[2])

\* sorted(totals.items(), key=lambda kv: kv[0], reverse=True)
RECURSIVE SortedItems(_)
SortedItems(totals) ==
    IF DOMAIN totals = {} THEN <<>>
    ELSE LET k == CHOOSE x \in DOMAIN totals : \A y \in DOMAIN totals : KeyLeq(y, x)
         IN  <<<<k, totals[k]>>>> \o SortedItems([x \in DOMAIN totals \ {k} |-> totals[x]])

\* lines 222-235 on the rows the two SELECTs of month_totals returned: list
\* of <<month, minutes>>, newest month first
month_totals_rows(sess, adjs, uid) ==
    SortedItems(AdjustmentTotals(adjs, uid, 1, SessionTotals(sess, uid, 1, <<>>)))

\* lines 239-242: the row of month key in the items of month_totals, else 0
month_minutes(key, items) ==
    LET hits == { j \in DOMAIN items : items[j][1] = key }
    IN  IF hits = {} THEN 0 ELSE items[CHOOSE j \in hits : \A h \in hits : j <= h][2]

\* ---------------------------------------------------------------- cache
\* @st.cache_data(ttl=10): seconds a cached value is served
TTL == 10

\* the cache holds a value for the user that is younger than the ttl
CacheHit(uid) == cache[uid] # None /\ now - cache[uid][1].at < TTL

\* ------------------------------------------------------------- inputs
Names == Range(ALLOWED_USERS)

\* the values typed into the number input and the text input of "Buchen"
Deltas == {-15, 0}
Reasons == {" correction "}

\* the start/stop button a run renders in col1
Branch(a) == IF a = None THEN "start" ELSE "stop"

InFlight(kind) == Cardinality({ q \in DOMAIN pc : pc[q] = kind })

\* a run ends: with st.rerun() (next = "rerun") or for good (next = "idle");
\* its locals are gone, its message stays on the page until the next run
EndRun(p, next, message) ==
    /\ pc' = [pc EXCEPT ![p] = next]
    /\ outcome' = [outcome EXCEPT ![p] = message]
    /\ loc' = [loc EXCEPT ![p] = NoLoc]
    /\ s_active' = [s_active EXCEPT ![p] = None]

\* a run begins; b is the button whose handler it executes
BeginRun(p, b) ==
    /\ pc[p] = "idle"
    /\ click' = [click EXCEPT ![p] = b]
    /\ inserted' = [inserted EXCEPT ![p] = 0]

\* a run whose col1 is done goes on to col2 (line 359): month_minutes is called
\* and waits for its first SELECT
BeginOverview(p, message) ==
    /\ pc' = [pc EXCEPT ![p] = "mm_sessions"]
    /\ outcome' = [outcome EXCEPT ![p] = message]
    /\ loc' = [loc EXCEPT ![p] = [NoLoc EXCEPT !.since = now]]
    /\ s_active' = [s_active EXCEPT ![p] = None]

\* ---------------------------------------------------------------- login
\* "Einloggen" (lines 269-273), in the sidebar of every run, logged in or not:
\* get_or_create_user finds the user, or goes on to create it
Login(p, name) ==
    /\ BeginRun(p, "login")
    /\ LET found == UserIdOf(name)
       IN  IF found # None
           THEN /\ st_user' = [st_user EXCEPT ![p] = <<[id |-> found[1], name |-> name]>>]
                /\ EndRun(p, "rerun", "success")
           ELSE /\ pc' = [pc EXCEPT ![p] = "login_insert"]
                /\ loc' = [loc EXCEPT ![p] = [NoLoc EXCEPT !.name = name]]
                /\ outcome' = [outcome EXCEPT ![p] = "none"]
                /\ UNCHANGED <<st_user, s_active>>
    /\ shown' = [shown EXCEPT ![p] = {}]
    /\ seen_done' = [seen_done EXCEPT ![p] = 0]
    /\ UNCHANGED <<tables, now, failures, dur, cache>>

\* get_or_create_user, lines 181-183: s.add(user); safe_commit(s).  users.name
\* is unique: a second row of the name raises IntegrityError, which nothing
\* catches; session_state keeps the user it had.  Else the run goes on to
\* s.refresh(user)
LoginInsert(p) ==
    /\ pc[p] = "login_insert"
    /\ IF UserIdOf(loc[p].name) = None
       THEN /\ users' = Append(users, loc[p].name)
            /\ pc' = [pc EXCEPT ![p] = "login_refresh"]
            /\ UNCHANGED <<outcome, loc, s_active>>
       ELSE /\ EndRun(p, "idle", "exception")
            /\ UNCHANGED users
    /\ UNCHANGED <<sessions, adjustments, logs, now, st_user, shown, click, inserted,
                   seen_done, failures, dur, cache>>

\* get_or_create_user, line 184: s.refresh(user), the SELECT of the row just
\* committed; then lines 271-273: session_state holds the user, st.success,
\* st.rerun
LoginRefresh(p) ==
    /\ pc[p] = "login_refresh"
    /\ st_user' = [st_user EXCEPT
                     ![p] = <<[id |-> UserIdOf(loc[p].name)[1], name |-> loc[p].name]>>]
    /\ EndRun(p, "rerun", "success")
    /\ UNCHANGED <<tables, now, shown, click, inserted, seen_done, failures, dur, cache>>

\* the commit of get_or_create_user fails in the storage
LoginInsertFails(p) ==
    /\ pc[p] = "login_insert"
    /\ failures < MaxFailures
    /\ failures' = failures + 1
    /\ EndRun(p, "idle", "exception")
    /\ UNCHANGED <<tables, now, st_user, shown, click, inserted, seen_done, dur, cache>>

\* "Logout" (lines 275-277), in the sidebar of every run:
\* st.session_state.pop("user", None); st.rerun()
Logout(p) ==
    /\ BeginRun(p, "logout")
    /\ st_user' = [st_user EXCEPT ![p] = None]
    /\ EndRun(p, "rerun", "none")
    /\ shown' = [shown EXCEPT ![p] = {}]
    /\ seen_done' = [seen_done EXCEPT ![p] = 0]
    /\ UNCHANGED <<tables, now, failures, dur, cache>>

\* a script run without a button, after st.rerun() or a refresh of the page, up
\* to its first wait: not logged in it ends at st.info and st.stop (lines
\* 280-282); logged in it reads the active session (line 289), renders col1
\* and goes on to col2
Render(p) ==
    /\ pc[p] \in {"idle", "rerun"}
    /\ click' = [click EXCEPT ![p] = "none"]
    /\ inserted' = [inserted EXCEPT ![p] = 0]
    /\ seen_done' = [seen_done EXCEPT ![p] = 0]
    /\ IF st_user[p] = None
       THEN /\ EndRun(p, "idle", "info")
            /\ shown' = [shown EXCEPT ![p] = {}]
       ELSE /\ BeginOverview(p, "none")
            /\ shown' = [shown EXCEPT ![p] = {Branch(active_session(Uid(p))), "adjust"}]
    /\ UNCHANGED <<tables, now, st_user, failures, dur, cache>>

\* ------------------------------------------------------------- overview
\* month_minutes (lines 238 and 213-216): the clock read for the month key, then
\* the SELECT of the user's finished sessions
MonthMinutesSessions(p) ==
    /\ pc[p] = "mm_sessions"
    /\ \E t \in ClockReads(loc[p].since) :
           loc' = [loc EXCEPT ![p].key  = month_key_local(now_utc(t)),
                              ![p].part = SessionTotals(sessions, Uid(p), 1, <<>>)]
    /\ pc' = [pc EXCEPT ![p] = "mm_adjustments"]
    /\ UNCHANGED <<tables, now, st_user, shown, s_active, click, outcome, inserted,
                   seen_done, failures, dur, cache>>

\* lines 217-219 and 229-235 in the run of caller p: the SELECT of the user's
\* adjustments, added to the totals of the sessions the run has read before
OverviewItems(p) == SortedItems(AdjustmentTotals(adjustments, Uid(p), 1, loc[p].part))

\* month_minutes (lines 217-219 and 229-242): the SELECT of the user's
\* adjustments, the totals, the figure of the metric; then line 364: the cached
\* table on a hit, and the run is over; on a miss month_totals is called and
\* waits for its first SELECT
MonthMinutesAdjustments(p) ==
    /\ pc[p] = "mm_adjustments"
    /\ LET current == month_minutes(loc[p].key, OverviewItems(p))
       IN  IF CacheHit(Uid(p))
           THEN EndRun(p, "idle", outcome[p])
           ELSE /\ pc' = [pc EXCEPT ![p] = "mt_sessions"]
                /\ loc' = [loc EXCEPT ![p].current = current, ![p].part = <<>>]
                /\ UNCHANGED <<outcome, s_active>>
    /\ UNCHANGED <<tables, now, st_user, shown, click, inserted, seen_done, failures,
                   dur, cache>>

\* load_month_totals_cached on a miss, month_totals lines 213-216: the SELECT
\* of the user's finished sessions
CachedSessions(p) ==
    /\ pc[p] = "mt_sessions"
    /\ loc' = [loc EXCEPT ![p].part = SessionTotals(sessions, Uid(p), 1, <<>>)]
    /\ pc' = [pc EXCEPT ![p] = "mt_adjustments"]
    /\ UNCHANGED <<tables, now, st_user, shown, s_active, click, outcome, inserted,
                   seen_done, failures, dur, cache>>

\* month_totals lines 217-235: the SELECT of the user's adjustments and the
\* sorted totals, which st.cache_data stores; the table is shown, the run is over
CachedAdjustments(p) ==
    /\ pc[p] = "mt_adjustments"
    /\ cache' = [cache EXCEPT ![Uid(p)] =
                   <<[data |-> OverviewItems(p), at |-> now]>>]
    /\ EndRun(p, "idle", outcome[p])
    /\ UNCHANGED <<tables, now, st_user, shown, click, inserted, seen_done, failures, dur>>

\* ---------------------------------------------------------------- start
\* a run with "Starten" clicked, up to its first wait (lines 279-326): the
\* click counts only if this run renders the button, that is if it reads no
\* active session; it then goes on to the commit. Else the run renders
\* "Stoppen" and goes on to col2
ClickStart(p) ==
    /\ st_user[p] # None
    /\ BeginRun(p, IF active_session(Uid(p)) = None THEN "start" ELSE "none")
    /\ "start" \in shown[p]
    /\ Len(sessions) + InFlight("start") < MaxSessions
    /\ IF active_session(Uid(p)) = None
       THEN /\ pc' = [pc EXCEPT ![p] = "start"]
            /\ shown' = [shown EXCEPT ![p] = {"start"}]
            /\ outcome' = [outcome EXCEPT ![p] = "none"]
            /\ loc' = [loc EXCEPT ![p] = [NoLoc EXCEPT !.since = now]]
            /\ UNCHANGED s_active
       ELSE /\ BeginOverview(p, "none")
            /\ shown' = [shown EXCEPT ![p] = {"stop", "adjust"}]
    /\ seen_done' = [seen_done EXCEPT ![p] = IF active_session(Uid(p)) = None
                                              THEN Cardinality(FinishedIds(Uid(p))) ELSE 0]
    /\ UNCHANGED <<tables, now, st_user, failures, dur, cache>>

\* a new row whose minutes column starts at 0
WorkSession_minutes0(uid, ts) ==
    [user_id |-> uid, start_ts |-> ts, end_ts |-> None, minutes |-> <<0>>]

\* line 326: WorkSession(user_id=..., start_ts=ts); the nullable columns
\* end_ts and minutes (lines 55-56) are left NULL
WorkSession(uid, ts) ==
    [user_id |-> uid, start_ts |-> ts, end_ts |-> None, minutes |-> None]

\* the insert answered with IntegrityError, with add_log run all the same
StartCommit_conflict_logged(p) ==
    /\ pc[p] = "start"
    /\ \E t \in ClockReads(loc[p].since) :
         LET ts == now_utc_str(t)
         IN  IF uq_active_session_per_user(Uid(p))
             THEN /\ sessions' = Append(sessions, WorkSession(Uid(p), ts))
                  /\ inserted' = [inserted EXCEPT ![p] = Len(sessions) + 1]
                  /\ loc' = [loc EXCEPT ![p].ts = ts, ![p].since = now]
                  /\ pc' = [pc EXCEPT ![p] = "start_log"]
                  /\ UNCHANGED <<outcome, s_active, logs>>
             ELSE /\ EndRun(p, "rerun", "info")
                  /\ logs' = Append(logs, LogRow(Uid(p), "start", None,
                               [text |-> "Start um", at |-> to_local_str(ts), hms |-> None], now))
                  /\ UNCHANGED <<sessions, inserted>>
    /\ UNCHANGED <<users, adjustments, now, st_user, shown, click, seen_done, failures,
                   dur, cache>>

\* lines 324-327 and 330-331: ts = now_utc_str(), read since the run's
\* previous step; insert the running session; the unique index answers a
\* second running session of the user with IntegrityError
StartCommit(p) ==
    /\ pc[p] = "start"
    /\ \E t \in ClockReads(loc[p].since) :
         LET ts == now_utc_str(t)
         IN  IF uq_active_session_per_user(Uid(p))
             THEN /\ sessions' = Append(sessions, WorkSession(Uid(p), ts))
                  /\ inserted' = [inserted EXCEPT ![p] = Len(sessions) + 1]
                  /\ loc' = [loc EXCEPT ![p].ts = ts, ![p].since = now]
                  /\ pc' = [pc EXCEPT ![p] = "start_log"]
                  /\ UNCHANGED <<outcome, s_active>>
             ELSE /\ EndRun(p, "rerun", "info")
                  /\ UNCHANGED <<sessions, inserted>>
    /\ UNCHANGED <<users, adjustments, logs, now, st_user, shown, click, seen_done,
                   failures, dur, cache>>

\* lines 332-334: the commit fails in the storage; rolled back and raised
StartCommitFails(p) ==
    /\ pc[p] = "start"
    /\ failures < MaxFailures
    /\ failures' = failures + 1
    /\ EndRun(p, "idle", "error")
    /\ UNCHANGED <<tables, now, st_user, shown, click, inserted, seen_done, dur, cache>>

\* lines 328-329 and 335: add_log(start), st.success, st.rerun
StartLog(p) ==
    /\ pc[p] = "start_log"
    /\ add_log(Uid(p), "start", None,
               [text |-> "Start um", at |-> to_local_str(loc[p].ts), hms |-> None],
               loc[p].since)
    /\ EndRun(p, "rerun", "success")
    /\ UNCHANGED <<users, sessions, adjustments, now, st_user, shown, click,
                   inserted, seen_done, failures, dur, cache>>

\* the commit of add_log fails in the storage (lines 332-334)
StartLogFails(p) ==
    /\ pc[p] = "start_log"
    /\ failures < MaxFailures
    /\ failures' = failures + 1
    /\ EndRun(p, "idle", "error")
    /\ UNCHANGED <<tables, now, st_user, shown, click, inserted, seen_done, dur, cache>>

\* ----------------------------------------------------------------- stop
\* a run with "Stoppen" clicked, up to its first wait (lines 279-301): the
\* click counts only if this run reads an active session; it then goes on to
\* the handler. Else the run renders "Starten" and goes on to col2
ClickStop(p) ==
    /\ st_user[p] # None
    /\ BeginRun(p, IF active_session(Uid(p)) # None THEN "stop" ELSE "none")
    /\ "stop" \in shown[p]
    /\ LET a == active_session(Uid(p))
       IN  IF a # None
           THEN /\ s_active' = [s_active EXCEPT ![p] = a]
                /\ pc' = [pc EXCEPT ![p] = "stop"]
                /\ shown' = [shown EXCEPT ![p] = {"stop"}]
                /\ outcome' = [outcome EXCEPT ![p] = "none"]
                /\ loc' = [loc EXCEPT ![p] = [NoLoc EXCEPT !.since = now]]
           ELSE /\ BeginOverview(p, "none")
                /\ shown' = [shown EXCEPT ![p] = {"start", "adjust"}]
    /\ seen_done' = [seen_done EXCEPT ![p] = 0]
    /\ UNCHANGED <<tables, now, st_user, failures, dur, cache>>

\* lines 305-306: mins = max(1, minutes_between_utc_str(start, end))
StopMinutes(start_ts, end_ts) == Max(1, minutes_between_utc_str(start_ts, end_ts))

\* lines 303-309: end_ts = now_utc_str(), read since the run's previous step;
\* secs and mins from the start the run has read in line 289; then
\* obj = s.get(WorkSession, s_active.id), the SELECT of the row as it is now
StopGet(p) ==
    /\ pc[p] = "stop"
    /\ \E t \in ClockReads(loc[p].since) :
         LET end_ts == now_utc_str(t)
             id     == s_active[p][1].id
             start  == s_active[p][1].start_ts
         IN  loc' = [loc EXCEPT ![p].ts = end_ts,
                                ![p].secs = seconds_between_utc_str(start, end_ts),
                                ![p].mins = StopMinutes(start, end_ts),
                                ![p].loaded = <<[end_ts  |-> sessions[id].end_ts,
                                                 minutes |-> sessions[id].minutes]>>]
    /\ pc' = [pc EXCEPT ![p] = "stop_commit"]
    /\ UNCHANGED <<tables, now, st_user, shown, s_active, click, outcome, inserted,
                   seen_done, failures, dur, cache>>

\* lines 310-312: obj.end_ts = end_ts; obj.minutes = mins; safe_commit(s).  The
\* UPDATE of the unit of work sets the attributes whose value differs from the
\* row s.get loaded, and only those
StopCommit(p) ==
    /\ pc[p] = "stop_commit"
    /\ LET id  == s_active[p][1].id
           was == loc[p].loaded[1]
       IN  sessions' = [sessions EXCEPT
               ![id].end_ts  = IF loc[p].ts # was.end_ts THEN loc[p].ts ELSE @,
               ![id].minutes = IF <<loc[p].mins>> # was.minutes THEN <<loc[p].mins>> ELSE @]
    /\ loc' = [loc EXCEPT ![p].since = now, ![p].loaded = None]
    /\ pc' = [pc EXCEPT ![p] = "stop_log"]
    /\ UNCHANGED <<users, adjustments, logs, now, st_user, shown, s_active, click, outcome,
                   inserted, seen_done, failures, dur, cache>>

\* lines 317-319: the commit fails in the storage
StopCommitFails(p) ==
    /\ pc[p] = "stop_commit"
    /\ failures < MaxFailures
    /\ failures' = failures + 1
    /\ EndRun(p, "idle", "error")
    /\ UNCHANGED <<tables, now, st_user, shown, click, inserted, seen_done, dur, cache>>

\* lines 314-316 and 320: add_log(stop, mins), st.success, st.rerun
StopLog(p) ==
    /\ pc[p] = "stop_log"
    /\ add_log(Uid(p), "stop", <<loc[p].mins>>,
               [text |-> "Stop um", at |-> to_local_str(loc[p].ts), hms |-> fmt_hms(loc[p].secs)],
               loc[p].since)
    /\ EndRun(p, "rerun", "success")
    /\ UNCHANGED <<users, sessions, adjustments, now, st_user, shown, click,
                   inserted, seen_done, failures, dur, cache>>

\* the commit of add_log fails in the storage (lines 317-319)
StopLogFails(p) ==
    /\ pc[p] = "stop_log"
    /\ failures < MaxFailures
    /\ failures' = failures + 1
    /\ EndRun(p, "idle", "error")
    /\ UNCHANGED <<tables, now, st_user, shown, click, inserted, seen_done, dur, cache>>

\* --------------------------------------------------------------- adjust
\* reason.strip(), on the inputs Reasons
strip(reason) == IF reason = " correction " THEN "correction" ELSE reason

\* reason or "Manuelle Anpassung"
ReasonOrDefault(reason) == IF reason = "" THEN "Manuelle Anpassung" ELSE reason

\* a validation that lets every delta through
DeltaRejected_never(delta) == FALSE

\* line 342: if delta == 0: st.warning(...)
DeltaRejected(delta) == delta = 0

\* a run with "Buchen" clicked, up to its first wait: the active session is
\* read (line 289); a delta of 0 is answered with st.warning and the run goes
\* on to col2, else it goes on to the commit (lines 345-350)
ClickAdjust(p, delta, reason) ==
    /\ BeginRun(p, "adjust")
    /\ st_user[p] # None
    /\ "adjust" \in shown[p]
    /\ ~DeltaRejected(delta) => Len(adjustments) + InFlight("adjust") < MaxAdjustments
    /\ shown' = [shown EXCEPT ![p] = {Branch(active_session(Uid(p))), "adjust"}]
    /\ IF DeltaRejected(delta)
       THEN BeginOverview(p, "warning")
       ELSE /\ pc' = [pc EXCEPT ![p] = "adjust"]
            /\ loc' = [loc EXCEPT ![p] = [NoLoc EXCEPT !.delta = delta, !.reason = reason,
                                                       !.since = now]]
            /\ outcome' = [outcome EXCEPT ![p] = "none"]
            /\ UNCHANGED s_active
    /\ seen_done' = [seen_done EXCEPT ![p] = 0]
    /\ UNCHANGED <<tables, now, st_user, failures, dur, cache>>

\* lines 345-350: ts = now_utc_str(), read since the run's previous step;
\* insert the adjustment
AdjustCommit(p) ==
    /\ pc[p] = "adjust"
    /\ \E t \in ClockReads(loc[p].since) :
           adjustments' = Append(adjustments,
               [user_id |-> Uid(p), minutes |-> loc[p].delta,
                reason |-> strip(loc[p].reason), created_ts |-> now_utc_str(t)])
    /\ loc' = [loc EXCEPT ![p].since = now]
    /\ pc' = [pc EXCEPT ![p] = "adjust_log"]
    /\ UNCHANGED <<users, sessions, logs, now, st_user, shown, s_active, click, outcome,
                   inserted, seen_done, failures, dur, cache>>

\* lines 354-356: the commit fails in the storage
AdjustCommitFails(p) ==
    /\ pc[p] = "adjust"
    /\ failures < MaxFailures
    /\ failures' = failures + 1
    /\ EndRun(p, "idle", "error")
    /\ UNCHANGED <<tables, now, st_user, shown, click, inserted, seen_done, dur, cache>>

\* lines 351-353 and 357: add_log(adjust, delta), st.success, st.rerun
AdjustLog(p) ==
    /\ pc[p] = "adjust_log"
    /\ add_log(Uid(p), "adjust", <<loc[p].delta>>,
               [text |-> ReasonOrDefault(loc[p].reason), at |-> None, hms |-> None],
               loc[p].since)
    /\ EndRun(p, "rerun", "success")
    /\ UNCHANGED <<users, sessions, adjustments, now, st_user, shown, click,
                   inserted, seen_done, failures, dur, cache>>

\* the commit of add_log fails in the storage (lines 354-356)
AdjustLogFails(p) ==
    /\ pc[p] = "adjust_log"
    /\ failures < MaxFailures
    /\ failures' = failures + 1
    /\ EndRun(p, "idle", "error")
    /\ UNCHANGED <<tables, now, st_user, shown, click, inserted, seen_done, dur, cache>>

\* ---------------------------------------------------------------- clock
\* time passes; a cached value as old as the ttl is gone
Tick ==
    /\ \E t \in Instants :
           /\ t > now
           /\ now' = t
           /\ cache' = [uid \in DOMAIN cache |->
                          IF cache[uid] # None /\ t - cache[uid][1].at < TTL
                          THEN cache[uid] ELSE None]
    /\ UNCHANGED <<tables, pc, st_user, shown, s_active, loc, click, outcome, inserted,
                   seen_done, failures, dur>>

\* ------------------------------------------------------- specifications
\* Each specification lets the same actions run over a part of the program's
\* behaviours that TLC can explore in full.

\* one browser session from the state after construction: every action,
\* storage failures included
Solo == {1}

NextSolo ==
    \/ \E p \in Solo, name \in Names : Login(p, name)
    \/ \E p \in Solo : LoginInsert(p)
    \/ \E p \in Solo : LoginRefresh(p)
    \/ \E p \in Solo : LoginInsertFails(p)
    \/ \E p \in Solo : Logout(p)
    \/ \E p \in Solo : Render(p)
    \/ \E p \in Solo : MonthMinutesSessions(p)
    \/ \E p \in Solo : MonthMinutesAdjustments(p)
    \/ \E p \in Solo : CachedSessions(p)
    \/ \E p \in Solo : CachedAdjustments(p)
    \/ \E p \in Solo : ClickStart(p)
    \/ \E p \in Solo : StartCommit(p)
    \/ \E p \in Solo : StartCommitFails(p)
    \/ \E p \in Solo : StartLog(p)
    \/ \E p \in Solo : StartLogFails(p)
    \/ \E p \in Solo : ClickStop(p)
    \/ \E p \in Solo : StopGet(p)
    \/ \E p \in Solo : StopCommit(p)
    \/ \E p \in Solo : StopCommitFails(p)
    \/ \E p \in Solo : StopLog(p)
    \/ \E p \in Solo : StopLogFails(p)
    \/ \E p \in Solo, delta \in Deltas, reason \in Reasons : ClickAdjust(p, delta, reason)
    \/ \E p \in Solo : AdjustCommit(p)
    \/ \E p \in Solo : AdjustCommitFails(p)
    \/ \E p \in Solo : AdjustLog(p)
    \/ \E p \in Solo : AdjustLogFails(p)
    \/ Tick

SpecSolo == Init /\ [][NextSolo]_vars

\* all browser sessions from the state after construction: logging in, as a
\* new or another user, and logging out, with the page renders in between
NextLogin ==
    \/ \E p \in Callers, name \in Names : Login(p, name)
    \/ \E p \in Callers : LoginInsert(p)
    \/ \E p \in Callers : LoginRefresh(p)
    \/ \E p \in Callers : LoginInsertFails(p)
    \/ \E p \in Callers : Logout(p)
    \/ \E p \in Callers : Render(p)
    \/ \E p \in Callers : MonthMinutesSessions(p)
    \/ \E p \in Callers : MonthMinutesAdjustments(p)
    \/ \E p \in Callers : CachedSessions(p)
    \/ \E p \in Callers : CachedAdjustments(p)
    \/ Tick

SpecLogin == Init /\ [][NextLogin]_vars

\* the state in which every browser session has just logged in (its login run
\* has called st.rerun): caller 1 as the first allowed user, the others all
\* as the same or all as the next one
InitLoggedIn ==
    /\ \E u \in {1, 2} :
           /\ users = SubSeq(ALLOWED_USERS, 1, u)
           /\ st_user = [p \in Callers |->
                           IF p = 1 THEN <<[id |-> 1, name |-> ALLOWED_USERS[1]]>>
                           ELSE <<[id |-> u, name |-> ALLOWED_USERS[u]]>>]
    /\ sessions = <<>>
    /\ adjustments = <<>>
    /\ logs = <<>>
    /\ now = Instant(1)
    /\ pc = [p \in Callers |-> "rerun"]
    /\ shown = [p \in Callers |-> {}]
    /\ s_active = [p \in Callers |-> None]
    /\ loc = [p \in Callers |-> NoLoc]
    /\ click = [p \in Callers |-> "login"]
    /\ outcome = [p \in Callers |-> "success"]
    /\ inserted = [p \in Callers |-> 0]
    /\ seen_done = [p \in Callers |-> 0]
    /\ failures = 0
    /\ cache = [uid \in DOMAIN ALLOWED_USERS |-> None]
    /\ dur = NoDur

\* the logged-in browser sessions start and stop, storage failures included
NextSessions ==
    \/ \E p \in Callers : Render(p)
    \/ \E p \in Callers : MonthMinutesSessions(p)
    \/ \E p \in Callers : MonthMinutesAdjustments(p)
    \/ \E p \in Callers : CachedSessions(p)
    \/ \E p \in Callers : CachedAdjustments(p)
    \/ \E p \in Callers : ClickStart(p)
    \/ \E p \in Callers : StartCommit(p)
    \/ \E p \in Callers : StartCommitFails(p)
    \/ \E p \in Callers : StartLog(p)
    \/ \E p \in Callers : StartLogFails(p)
    \/ \E p \in Callers : ClickStop(p)
    \/ \E p \in Callers : StopGet(p)
    \/ \E p \in Callers : StopCommit(p)
    \/ \E p \in Callers : StopCommitFails(p)
    \/ \E p \in Callers : StopLog(p)
    \/ \E p \in Callers : StopLogFails(p)
    \/ Tick

SpecSessions == InitLoggedIn /\ [][NextSessions]_vars

\* the logged-in browser sessions start, stop and book adjustments, the
\* storage working
NextLedger ==
    \/ \E p \in Callers : Render(p)
    \/ \E p \in Callers : MonthMinutesSessions(p)
    \/ \E p \in Callers : MonthMinutesAdjustments(p)
    \/ \E p \in Callers : CachedSessions(p)
    \/ \E p \in Callers : CachedAdjustments(p)
    \/ \E p \in Callers : ClickStart(p)
    \/ \E p \in Callers : StartCommit(p)
    \/ \E p \in Callers : StartLog(p)
    \/ \E p \in Callers : ClickStop(p)
    \/ \E p \in Callers : StopGet(p)
    \/ \E p \in Callers : StopCommit(p)
    \/ \E p \in Callers : StopLog(p)
    \/ \E p \in Callers, delta \in Deltas \ {0}, reason \in Reasons : ClickAdjust(p, delta, reason)
    \/ \E p \in Callers : AdjustCommit(p)
    \/ \E p \in Callers : AdjustLog(p)
    \/ Tick

SpecLedger == InitLoggedIn /\ [][NextLedger]_vars

\* the browser sessions of the first allowed user, each showing "Stoppen" for
\* the session the user started at the earliest clock value: the state after
\* the start, its log entry and the page renders that followed
Stoppers == 1..NumStoppers

InitStops ==
    /\ users = SubSeq(ALLOWED_USERS, 1, 1)
    /\ sessions = <<WorkSession(1, now_utc_str(Instant(0)))>>
    /\ adjustments = <<>>
    /\ logs = <<LogRow(1, "start", None,
                       [text |-> "Start um", at |-> to_local_str(now_utc_str(Instant(0))),
                        hms |-> None], Instant(0))>>
    /\ now = Instant(0)
    /\ pc = [p \in Stoppers |-> "idle"]
    /\ st_user = [p \in Stoppers |-> <<[id |-> 1, name |-> ALLOWED_USERS[1]]>>]
    /\ shown = [p \in Stoppers |-> {"stop", "adjust"}]
    /\ s_active = [p \in Stoppers |-> None]
    /\ loc = [p \in Stoppers |-> NoLoc]
    /\ click = [p \in Stoppers |-> "none"]
    /\ outcome = [p \in Stoppers |-> "none"]
    /\ inserted = [p \in Stoppers |-> 0]
    /\ seen_done = [p \in Stoppers |-> 0]
    /\ failures = 0
    /\ cache = [uid \in DOMAIN ALLOWED_USERS |->
                  IF uid = 1 THEN <<[data |-> <<>>, at |-> Instant(0)]>> ELSE None]
    /\ dur = NoDur

\* the stop handler alone; the renders between the runs write no table
NextStops ==
    \/ \E p \in Stoppers : ClickStop(p)
    \/ \E p \in Stoppers : StopGet(p)
    \/ \E p \in Stoppers : StopCommit(p)
    \/ \E p \in Stoppers : StopLog(p)
    \/ Tick

SpecStops == InitStops /\ [][NextStops]_vars

\* ------------------------------------------------- duration policy alone
\* the instants the policy is applied to: two starts, and ends from DurBack
\* seconds before the start to DurSpan seconds after it
DurBack == 65
DurSpan == 165

\* 2024-03-31 21:58:30 UTC and 2024-02-29 23:59:45 UTC
DurStarts == {1711922310, 1709251185}

InitDur ==
    /\ InitLedger
    /\ \E t0 \in DurStarts, d \in (0 - DurBack)..DurSpan :
           dur = [t0 |-> t0, t1 |-> t0 + d, start |-> now_utc_str(t0),
                  end |-> now_utc_str(t0 + d), mins |-> None]

\* mins = minutes_between_utc_str(start, end)
DurApply ==
    /\ dur.mins = None
    /\ dur' = [dur EXCEPT !.mins = <<minutes_between_utc_str(dur.start, dur.end)>>]
    /\ UNCHANGED <<tables, now, pc, st_user, shown, s_active, loc, click, outcome, inserted,
                   seen_done, failures, cache>>

NextDur == DurApply

SpecDur == InitDur /\ [][NextDur]_vars

\* ------------------------------------- duration policy, two ends of a start
\* one start and two ends, the first not after the second; ends from PairBack
\* seconds before the start to PairSpan seconds after it
PairBack == 65
PairSpan == 95

InitPair ==
    /\ InitLedger
    /\ \E t0 \in DurStarts, d1 \in (0 - PairBack)..PairSpan, d2 \in (0 - PairBack)..PairSpan :
           /\ d1 <= d2
           /\ dur = [t0 |-> t0, t1 |-> t0 + d1, t2 |-> t0 + d2,
                     start |-> now_utc_str(t0), end |-> now_utc_str(t0 + d1),
                     end2 |-> now_utc_str(t0 + d2), mins |-> None, mins2 |-> None]

\* mins = minutes_between_utc_str(start, end), for each of the two ends
PairApply ==
    /\ dur.mins = None
    /\ dur' = [dur EXCEPT !.mins  = <<minutes_between_utc_str(dur.start, dur.end)>>,
                          !.mins2 = <<minutes_between_utc_str(dur.start, dur.end2)>>]
    /\ UNCHANGED <<tables, now, pc, st_user, shown, s_active, loc, click, outcome, inserted,
                   seen_done, failures, cache>>

NextPair == PairApply

SpecPair == InitPair /\ [][NextPair]_vars

\* ================================================================ claims
UserIds == DOMAIN users

SessionIds(uid) == { i \in DOMAIN sessions : sessions[i].user_id = uid }

AdjustmentIds(uid) == { i \in DOMAIN adjustments : adjustments[i].user_id = uid }

LogIds(uid, kind) == { i \in DOMAIN logs : logs[i].user_id = uid /\ logs[i].kind = kind }

LoggedIn(p, uid) == st_user[p] # None /\ Uid(p) = uid

\* the instant a stored timestamp string was printed from
InstantOf(ts) == CHOOSE t \in ClockValues : now_utc_str(t) = ts

\* seconds from the start instant to the end instant of a finished session
Elapsed(row) == InstantOf(row.end_ts) - InstantOf(row.start_ts)

\* the rounding rule of the duration policy, on a number of seconds
HalfUpMinutes(s) == IF s < 0 THEN 0 ELSE s \div 60 + (IF s % 60 >= 30 THEN 1 ELSE 0)

\* sum of f over the indices in S
RECURSIVE SumOver(_, _)
SumOver(f, S) ==
    IF S = {} THEN 0
    ELSE LET x == CHOOSE y \in S : TRUE IN f[x] + SumOver(f, S \ {x})

\* a caller of the user is between the commit of a handler and its add_log
InFlightFor(uid) ==
    \E p \in Callers : LoggedIn(p, uid) /\ pc[p] \in {"start_log", "stop_log", "adjust_log"}

\* C1: in every reachable state each user has at most one session whose end
\* instant is absent, whatever the callers do and however their steps interleave.
C1_AtMostOneActiveSession ==
    \A uid \in UserIds : Cardinality(ActiveIds(uid)) <= 1

\* C1 witness: a start was answered with the conflict while the user's one
\* running session exists
C1_Witness ==
    \E p \in Callers :
        /\ st_user[p] # None
        /\ click[p] = "start" /\ outcome[p] = "info"
        /\ Cardinality(ActiveIds(Uid(p))) = 1

\* two callers of one user have both finished a start request that read no
\* active session, without a storage failure, no stop has committed since
\* either of them read, and no third caller's session is running
RacedStarts(p, q) ==
    /\ p # q
    /\ st_user[p] # None /\ st_user[q] # None /\ Uid(p) = Uid(q)
    /\ click[p] = "start" /\ click[q] = "start"
    /\ pc[p] = "rerun" /\ pc[q] = "rerun"
    /\ outcome[p] \in {"success", "info"} /\ outcome[q] \in {"success", "info"}
    /\ seen_done[p] = Cardinality(FinishedIds(Uid(p)))
    /\ seen_done[q] = Cardinality(FinishedIds(Uid(p)))
    /\ ActiveIds(Uid(p)) \subseteq {inserted[p], inserted[q]}

\* C2: of two concurrent start requests of one user that both read "no active
\* session", exactly one inserts a session, the other gets the conflict
\* message, and the user has exactly one running session afterwards.
C2_ExactlyOneStartWins ==
    \A p, q \in Callers :
        RacedStarts(p, q) =>
            /\ {outcome[p], outcome[q]} = {"success", "info"}
            /\ Cardinality({ r \in {p, q} : inserted[r] # 0 }) = 1
            /\ Cardinality(ActiveIds(Uid(p))) = 1

C2_Witness == \E p, q \in Callers : RacedStarts(p, q)

\* C3: once a stop has set a session's end instant and minutes, no later step
\* changes that session's end instant or minutes.
C3_FinishedOnce ==
    [][\A i \in DOMAIN sessions :
          sessions[i].end_ts # None =>
              /\ sessions'[i].end_ts = sessions[i].end_ts
              /\ sessions'[i].minutes = sessions[i].minutes]_vars

\* C4: every committed start, stop and adjust has exactly one log entry of its
\* kind with the matching minutes (none for start, the session's minutes for
\* stop, the delta for adjust); stated when the user has no handler between
\* its commit and its add_log, over the runs without a storage failure.
C4_OneLogPerMutation ==
    \A uid \in UserIds :
        (failures = 0 /\ ~InFlightFor(uid)) =>
            /\ Cardinality(LogIds(uid, "start")) = Cardinality(SessionIds(uid))
            /\ \A i \in LogIds(uid, "start") : logs[i].minutes = None
            /\ \A m \in { sessions[i].minutes : i \in FinishedIds(uid) }
                      \cup { logs[i].minutes : i \in LogIds(uid, "stop") } :
                   Cardinality({ i \in LogIds(uid, "stop") : logs[i].minutes = m })
                     = Cardinality({ i \in FinishedIds(uid) : sessions[i].minutes = m })
            /\ \A m \in { <<adjustments[i].minutes>> : i \in AdjustmentIds(uid) }
                      \cup { logs[i].minutes : i \in LogIds(uid, "adjust") } :
                   Cardinality({ i \in LogIds(uid, "adjust") : logs[i].minutes = m })
                     = Cardinality({ i \in AdjustmentIds(uid) : <<adjustments[i].minutes>> = m })

\* C5: a storage failure leaves no operation partially applied: once no
\* handler of the user is between its commit and its add_log, no session,
\* finished session or adjustment of the user lacks its log entry.
C5_NoPartialApplication ==
    \A uid \in UserIds :
        ~InFlightFor(uid) =>
            /\ Cardinality(LogIds(uid, "start")) >= Cardinality(SessionIds(uid))
            /\ Cardinality(LogIds(uid, "stop")) >= Cardinality(FinishedIds(uid))
            /\ Cardinality(LogIds(uid, "adjust")) >= Cardinality(AdjustmentIds(uid))

\* C6: a stop request for a user who has no active session reports an error to
\* the caller and leaves the stored state unchanged: the step of a run started
\* by "Stoppen" that reads no active session puts an error on the page.
C6_StopWithoutSessionReportsError ==
    [][\A p \in Callers :
          (ClickStop(p) /\ active_session(Uid(p)) = None) =>
              /\ outcome'[p] = "error"
              /\ UNCHANGED <<users, sessions, adjustments, logs>>]_vars

\* C7: every finished session records max(1, duration(start, end)) minutes, so
\* at least 1: in particular 1 when fewer than 30 seconds elapsed.
C7_FinishedMinutesAtLeastOne ==
    \A i \in DOMAIN sessions :
        sessions[i].end_ts # None =>
            /\ sessions[i].minutes # None
            /\ sessions[i].minutes[1] >= 1
            /\ sessions[i].minutes[1] = Max(1, HalfUpMinutes(Elapsed(sessions[i])))
            /\ Elapsed(sessions[i]) < 30 => sessions[i].minutes[1] = 1

\* C8: duration(start, end) is 0 when end < start, else floor(s/60) plus 1 if
\* s mod 60 >= 30, with s the seconds from start to end: 29 s gives 0, 30 s
\* gives 1, 90 s gives 2, 160 s gives 3.
C8_DurationPolicy ==
    dur.mins # None =>
        LET s == dur.t1 - dur.t0
        IN  /\ dur.mins[1] = HalfUpMinutes(s)
            /\ s < 0 => dur.mins[1] = 0
            /\ s = 29 => dur.mins[1] = 0
            /\ s = 30 => dur.mins[1] = 1
            /\ s = 90 => dur.mins[1] = 2
            /\ s = 160 => dur.mins[1] = 3

\* C8 witness: the policy applied to 160 seconds gave 3
C8_Witness == dur.mins = <<3>> /\ dur.t1 - dur.t0 = 160

\* the minutes month_totals reports for month k, 0 if it has no such row
BucketOf(items, k) ==
    IF \E j \in DOMAIN items : items[j][1] = k
    THEN items[CHOOSE j \in DOMAIN items : items[j][1] = k][2]
    ELSE 0

\* the local month of a stored timestamp
LocalMonth(ts) == month_key_local(utc_str_to_dt(ts))

\* the totals month_totals returns when no commit falls between its two SELECTs
TotalsOfTables(uid) == month_totals_rows(sessions, adjustments, uid)

\* C9: month_totals attributes the minutes of a finished session to the local
\* month of its end instant, not of its start: after the loop over the
\* sessions a call has read, each month's bucket holds the minutes of the
\* sessions that ended in it, and nothing of a session that only started in it.
C9_BucketByEndMonth ==
    [][\A p \in Callers :
          (MonthMinutesSessions(p) \/ CachedSessions(p)) =>
              LET uid     == Uid(p)
                  part    == loc'[p].part
                  endOf   == [i \in FinishedIds(uid) |-> LocalMonth(sessions[i].end_ts)]
                  startOf == [i \in FinishedIds(uid) |-> LocalMonth(sessions[i].start_ts)]
                  months  == Range(endOf) \cup Range(startOf) \cup DOMAIN part
              IN  \A k \in months :
                      (IF k \in DOMAIN part THEN part[k] ELSE 0)
                        = SumOver([i \in DOMAIN sessions |-> IntOrZero(sessions[i].minutes)],
                                  { i \in FinishedIds(uid) : endOf[i] = k })]_vars

\* C9 witness: a call has read a session started in local March and stopped
\* 160 seconds later in local April, and holds April: 3 for it
C9_Witness ==
    \E p \in Callers :
        /\ pc[p] \in {"mm_adjustments", "mt_adjustments"}
        /\ DOMAIN loc[p].part = {<<2024, 4>>}
        /\ loc[p].part[<<2024, 4>>] = 3
        /\ \E i \in FinishedIds(Uid(p)) :
               /\ LocalMonth(sessions[i].start_ts) = <<2024, 3>>
               /\ LocalMonth(sessions[i].end_ts) = <<2024, 4>>

\* C10: the minutes of all buckets a call of month_totals returns add up to
\* the minutes of the user's finished sessions plus the minutes of the user's
\* adjustments, in the state the call returns in; a running session adds
\* nothing.
C10_TotalsAddUp ==
    [][\A p \in Callers :
          (MonthMinutesAdjustments(p) \/ CachedAdjustments(p)) =>
              LET uid   == Uid(p)
                  items == OverviewItems(p)
              IN  SumOver([j \in DOMAIN items |-> items[j][2]], DOMAIN items)
                    = SumOver([i \in DOMAIN sessions |-> IntOrZero(sessions[i].minutes)],
                              FinishedIds(uid))
                      + SumOver([i \in DOMAIN adjustments |-> adjustments[i].minutes],
                                AdjustmentIds(uid))]_vars

\* no caller of the user has a handler in flight
Quiescent(uid) ==
    \A p \in Callers :
        LoggedIn(p, uid) =>
            pc[p] \notin {"start", "start_log", "stop", "stop_commit", "stop_log",
                          "adjust", "adjust_log"}

\* the minutes carried by the user's stop and adjust log entries, added up
LogMinutes(uid) ==
    SumOver([i \in DOMAIN logs |-> IntOrZero(logs[i].minutes)],
            LogIds(uid, "stop") \cup LogIds(uid, "adjust"))

\* C11: whenever no operation of a user is in flight, the minutes of the
\* user's stop and adjust log entries add up to the sum of all buckets of
\* month_totals for the user; stated over the runs without a storage failure.
C11_LogReconstructsTotals ==
    \A uid \in UserIds :
        (failures = 0 /\ Quiescent(uid)) =>
            LET items == TotalsOfTables(uid)
            IN  LogMinutes(uid) = SumOver([j \in DOMAIN items |-> items[j][2]], DOMAIN items)

\* C12: a login run that has ended returned the user of its name: it put the
\* success message on the page and holds the user, and exactly one row of
\* users has that name; stated over the runs without a storage failure, so
\* also for the two logins of one new name that both found no row.
C12_LoginRaceBothReturn ==
    \A p \in Callers :
        (failures = 0 /\ click[p] = "login" /\ pc[p] \in {"idle", "rerun"}) =>
            /\ outcome[p] = "success"
            /\ st_user[p] # None
            /\ Cardinality({ i \in DOMAIN users : users[i] = st_user[p][1].name }) = 1

\* C13: an adjust request with delta 0 is rejected with the validation message
\* and leaves sessions, adjustments and logs unchanged: its run goes on to
\* the overview without a commit; no adjustment row and no adjust log entry of
\* 0 minutes is ever written.
C13_ZeroDeltaRejected ==
    [][\A p \in Callers :
          (\E reason \in Reasons : ClickAdjust(p, 0, reason)) =>
              /\ outcome'[p] = "warning"
              /\ pc'[p] = "mm_sessions"
              /\ UNCHANGED <<sessions, adjustments, logs>>
              /\ \A i \in DOMAIN adjustments' : adjustments'[i].minutes # 0
              /\ \A i \in DOMAIN logs' : logs'[i].kind = "adjust" => logs'[i].minutes # <<0>>]_vars

\* C13 witness: a run started by "Buchen" with delta 0 has ended with the
\* warning, while the tables hold rows it could have touched
C13_Witness ==
    \E p \in Callers :
        /\ click[p] = "adjust" /\ outcome[p] = "warning" /\ pc[p] = "idle"
        /\ sessions # <<>>
        /\ adjustments = <<>>
        /\ \A i \in DOMAIN logs : logs[i].kind # "adjust"

\* the months that have a row in items
MonthsOf(items) == { items[j][1] : j \in DOMAIN items }

\* C14: an adjust request with a delta other than 0 is accepted whether or not
\* the user has a running session; its commit changes the month_totals bucket
\* of the adjustment's creation month (local) by exactly the delta and no other
\* bucket; its add_log appends a log entry of kind adjust with the delta as
\* minutes; and both steps leave every session unchanged.
C14_AdjustFrame ==
    [][\A p \in Callers :
          /\ (\E d \in Deltas \ {0}, reason \in Reasons : ClickAdjust(p, d, reason)) =>
                 /\ pc'[p] = "adjust"
                 /\ UNCHANGED <<sessions, adjustments, logs>>
          /\ AdjustCommit(p) =>
                 LET uid    == Uid(p)
                     d      == loc[p].delta
                     before == TotalsOfTables(uid)
                     after  == month_totals_rows(sessions', adjustments', uid)
                     made   == adjustments'[Len(adjustments')]
                     k      == LocalMonth(made.created_ts)
                 IN  /\ Len(adjustments') = Len(adjustments) + 1
                     /\ made.user_id = uid /\ made.minutes = d
                     /\ InstantOf(made.created_ts) \in ClockReads(loc[p].since)
                     /\ BucketOf(after, k) = BucketOf(before, k) + d
                     /\ \A m \in (MonthsOf(before) \cup MonthsOf(after)) \ {k} :
                            BucketOf(after, m) = BucketOf(before, m)
                     /\ UNCHANGED <<sessions, logs>>
          /\ AdjustLog(p) =>
                 /\ Len(logs') = Len(logs) + 1
                 /\ \A i \in DOMAIN logs : logs'[i] = logs[i]
                 /\ logs'[Len(logs')].user_id = Uid(p)
                 /\ logs'[Len(logs')].kind = "adjust"
                 /\ logs'[Len(logs')].minutes = <<loc[p].delta>>
                 /\ outcome'[p] = "success"
                 /\ UNCHANGED <<sessions, adjustments>>]_vars

\* C14 witness: an adjustment of -15 was booked and logged in local April for
\* a user whose session is running, with a finished session in local March
C14_Witness ==
    \E p \in Callers :
        /\ click[p] = "adjust" /\ outcome[p] = "success" /\ pc[p] = "rerun"
        /\ ActiveIds(Uid(p)) # {}
        /\ \E i \in AdjustmentIds(Uid(p)) :
               /\ adjustments[i].minutes = -15
               /\ LocalMonth(adjustments[i].created_ts) = <<2024, 4>>
        /\ \E i \in LogIds(Uid(p), "adjust") : logs[i].minutes = <<-15>>
        /\ BucketOf(TotalsOfTables(Uid(p)), <<2024, 4>>) = -15

\* C15: a start request answered with the conflict message leaves the stored
\* state unchanged: the step that answers it creates no session, alters no
\* session and appends no log entry, and the run has inserted nothing.
C15_ConflictStartChangesNothing ==
    [][\A p \in Callers :
          (pc[p] = "start" /\ outcome'[p] = "info") =>
              /\ UNCHANGED <<users, sessions, adjustments, logs>>
              /\ inserted'[p] = 0
              /\ ActiveIds(Uid(p)) # {}]_vars

\* C15 witness: a start run has ended with the conflict message; the running
\* session is another run's, and the log has one start entry for it
C15_Witness ==
    \E p \in Callers :
        /\ click[p] = "start" /\ outcome[p] = "info" /\ pc[p] = "rerun"
        /\ inserted[p] = 0
        /\ Cardinality(SessionIds(Uid(p))) = 1
        /\ Cardinality(ActiveIds(Uid(p))) = 1
        /\ Cardinality(LogIds(Uid(p), "start")) = 1

\* C16: for a fixed start the duration does not decrease when the end moves
\* later (end1 <= end2 implies duration(start, end1) <= duration(start, end2)),
\* and duration(t, t) = 0, the floor of the stop handler not applied.
C16_DurationMonotone ==
    dur.mins # None =>
        /\ dur.t1 <= dur.t2
        /\ dur.mins[1] <= dur.mins2[1]
        /\ dur.t1 = dur.t0 => dur.mins[1] = 0
        /\ dur.t2 = dur.t0 => dur.mins2[1] = 0

\* C16 witness: the policy applied to an end at the start (0 minutes) and to an
\* end 30 seconds later (1 minute)
C16_Witness ==
    /\ dur.mins = <<0>> /\ dur.t1 = dur.t0
    /\ dur.mins2 = <<1>> /\ dur.t2 = dur.t0 + 30

\* start entries minus stop entries of the user among the first n log rows
StartStopBalance(uid, n) ==
    Cardinality({ i \in LogIds(uid, "start") : i <= n })
      - Cardinality({ i \in LogIds(uid, "stop") : i <= n })

\* C17: in the log of a user, read in creation order without the adjust
\* entries, start and stop entries alternate beginning with start: every
\* prefix has as many starts as stops or one more; stated over the runs
\* without a storage failure.
C17_StartStopAlternate ==
    \A uid \in UserIds :
        failures = 0 =>
            \A n \in 0..Len(logs) : StartStopBalance(uid, n) \in {0, 1}

\* C18: the commit of a start request of a user who has no running session
\* inserts the session and goes on to the success message, however many
\* finished sessions the user has: the unique index counts only rows whose
\* end_ts is absent (the storage not failing).
C18_StartFromIdleSucceeds ==
    [][\A p \in Callers :
          /\ (pc[p] = "start" /\ ActiveIds(Uid(p)) = {} /\ StartCommit(p)) =>
                 /\ Len(sessions') = Len(sessions) + 1
                 /\ \A i \in DOMAIN sessions : sessions'[i] = sessions[i]
                 /\ sessions'[Len(sessions')].user_id = Uid(p)
                 /\ sessions'[Len(sessions')].end_ts = None
                 /\ ActiveIds(Uid(p))' = {Len(sessions')}
                 /\ FinishedIds(Uid(p))' = FinishedIds(Uid(p))
                 /\ pc'[p] = "start_log"
          /\ StartLog(p) => outcome'[p] = "success"]_vars

\* C18 witness: a user with a finished session has started again: the start
\* run has ended with the success message and its session is the running one
C18_Witness ==
    \E p \in Callers :
        /\ click[p] = "start" /\ outcome[p] = "success" /\ pc[p] = "rerun"
        /\ FinishedIds(Uid(p)) # {}
        /\ ActiveIds(Uid(p)) = {inserted[p]}
        /\ \A i \in FinishedIds(Uid(p)) : i < inserted[p]

\* C19: in every reachable state a session's end instant is absent if and
\* only if its minutes are absent: a running session has neither, a stopped
\* one has both.
C19_EndIffMinutes ==
    \A i \in DOMAIN sessions :
        (sessions[i].end_ts = None) <=> (sessions[i].minutes = None)

\* C19 witness: a running session (neither end nor minutes) next to a
\* finished one (both)
C19_Witness ==
    \E i, j \in DOMAIN sessions :
        /\ sessions[i].end_ts = None /\ sessions[i].minutes = None
        /\ sessions[j].end_ts # None /\ sessions[j].minutes # None

\* C20: in every run that renders the overview, the current-month figure
\* (month_minutes) equals the minutes of the current-month row of the month
\* table of the same run (load_month_totals_cached), 0 if the table has no
\* such row; also in the run that follows a committed stop or adjust: on a
\* cache hit the table is the cached one, on a miss the one the run computes.
\* Stated over the runs without a storage failure.
C20_CurrentMonthMatchesTable ==
    [][\A p \in Callers :
          failures = 0 =>
              /\ (MonthMinutesAdjustments(p) /\ CacheHit(Uid(p))) =>
                     month_minutes(loc[p].key, OverviewItems(p))
                       = BucketOf(cache[Uid(p)][1].data, loc[p].key)
              /\ CachedAdjustments(p) =>
                     loc[p].current = BucketOf(OverviewItems(p), loc[p].key)]_vars

====
